---- MODULE Spec2Model ----
(***************************************************************************)
(* A model of remove_dupes.py: the resumable setup / search / cleanup /    *)
(* reset pipeline over one search root, its two pickled stores, the        *)
(* directory tree and the trash directory.                                 *)
(*                                                                         *)
(* Paths are sequences of one-character strings ("/r/A(1)" is              *)
(* <<"/","r","/","A","(","1",")">>), so that os.path.join,                 *)
(* os.path.basename and the regular expression \(\d+\) are computed over   *)
(* the characters, as the program computes them.                           *)
(***************************************************************************)
EXTENDS Integers, Sequences, FiniteSets, Bags, TLC

(***************************************************************************)
(* Bounds of the model.                                                    *)
(***************************************************************************)
\* The most copies of one path a bucket of the persisted index may hold
\* before crashes in the re-hash window and resets are no longer explored.
MaxCopies == 2

(***************************************************************************)
(* Strings and paths.                                                      *)
(***************************************************************************)
Digits == {"0", "1", "2", "3", "4", "5", "6", "7", "8", "9"}

\* flags.search_dir
search_dir == <<"/", "r">>

\* os.path.join(path, name)
join(path, name) == path \o <<"/">> \o name

\* Index of the last "/" of a path (0 when there is none).
LastSep(p) ==
  IF \E i \in 1..Len(p) : p[i] = "/"
  THEN CHOOSE i \in 1..Len(p) : p[i] = "/" /\ \A j \in (i+1)..Len(p) : p[j] # "/"
  ELSE 0

\* os.path.basename(p)
basename(p) == SubSeq(p, LastSep(p) + 1, Len(p))

\* os.path.dirname(p), for a path below the root directory "/"
dirname(p) == SubSeq(p, 1, LastSep(p) - 1)

\* regexp = re.compile('\(\d+\)'); regexp.search(s): some "(", one or more
\* digits, ")" occurs anywhere in the string s.
regexp_search(s) ==
  \E i \in 1..Len(s) : \E j \in (i+2)..Len(s) :
     /\ s[i] = "("
     /\ s[j] = ")"
     /\ \A k \in (i+1)..(j-1) : s[k] \in Digits

(***************************************************************************)
(* The directory tree the model explores.                                  *)
(***************************************************************************)
NameA  == <<"A">>
NameA1 == <<"A", "(", "1", ")">>
NameA2 == <<"A", "(", "2", ")">>
NameB  == <<"b">>
NameP  == <<"p", "(", "2", ")">>
NameS  == <<"s">>
NameE  == <<"e">>
NameN  == <<"n">>

DirP == join(search_dir, NameP)
DirS == join(search_dir, NameS)
DirE == join(search_dir, NameE)
DirN == join(DirE, NameN)
AllDirs == {search_dir, DirP, DirS, DirE, DirN}

FA   == join(search_dir, NameA)
FA1  == join(search_dir, NameA1)
FA2  == join(search_dir, NameA2)
FSA1 == join(DirS, NameA1)
FPB  == join(DirP, NameB)
FSB  == join(DirS, NameB)
AllFiles == {FA, FA1, FA2, FSA1, FPB, FSB}

\* The bytes of each file; files are never rewritten by the program.
Content(f) == IF f \in {FPB, FSB} THEN <<"y", "y">> ELSE <<"x">>

\* A file found in the trash directory before the program ever ran.
Leftover == <<"l", "e", "f", "t">>

\* The trees (directories, files, content of the trash directory) the model
\* starts from.
InitCases ==
  { [dirs |-> AllDirs,                 files |-> {FPB, FSB},      trash |-> <<>>],
    [dirs |-> {search_dir, DirP, DirS}, files |-> {FPB, FSB},      trash |-> <<>>],
    [dirs |-> {search_dir},            files |-> {FA, FA1, FA2},  trash |-> <<>>],
    [dirs |-> {search_dir},            files |-> {FA1, FA2},      trash |-> <<>>],
    [dirs |-> {search_dir},            files |-> {FA1, FA2},
     trash |-> [n \in {NameA1} |-> Leftover]],
    [dirs |-> {search_dir, DirS},      files |-> {FA, FA1, FSA1}, trash |-> <<>>] }

\* The orders in which os.listdir may return the sub-directories.
DirOrders ==
  { <<DirP, DirS, DirE, DirN>>,
    <<DirE, DirS, DirP, DirN>> }

\* str(uuid.uuid4())[:4] + '-': the tokens the model draws from.
Tokens == { <<"a", "-">>, <<"b", "-">> }

(***************************************************************************)
(* Dicts (functions) and the None value.                                   *)
(***************************************************************************)
\* None where a path or a digest is expected, and where an exception is.
None == <<>>
NoError == "None"
\* No snapshot taken, no unit in flight.
NoSnap == [taken |-> FALSE, resumed |-> FALSE, idx |-> <<>>, files |-> {},
           trash |-> <<>>, runFiles |-> {}]
NoUnit == [kind |-> "none", unit |-> <<>>]
EmptyDict == <<>>
Put(d, k, v) == [x \in (DOMAIN d) \cup {k} |-> IF x = k THEN v ELSE d[x]]
Pop(d, k) == [x \in (DOMAIN d) \ {k} |-> d[x]]

(***************************************************************************)
(* The file system: D is the set of directories, F the set of files.       *)
(***************************************************************************)
\* os.listdir(path): the entries directly under path (as full paths).
listdir(path, D, F) == {e \in D \cup F : e # path /\ dirname(e) = path}

\* os.path.isdir(p)
isdir(p, D) == p \in D

\* remove_empty_dir without its os.rmdir: the directory stays.
remove_empty_dir_kept(path, D) == D

\* remove_empty_dir(path): os.rmdir(path)
remove_empty_dir(path, D) == D \ {path}

(***************************************************************************)
(* list_dirs(path): the directories under path, deepest first, removing    *)
(* the empty ones.  ord is the order of os.listdir.  The result is the     *)
(* list and the directories left on disk.                                  *)
(***************************************************************************)
RECURSIVE list_dirs(_, _, _, _, _)
RECURSIVE list_dirs_loop(_, _, _, _, _, _, _)

\* for subdir in children: if isdir: dirs.extend(list_dirs(subdir_path))
list_dirs_loop(children, i, acc, D, F, prune, ord) ==
  IF i > Len(ord) THEN [dirs |-> acc, fs |-> D]
  ELSE IF ord[i] \in children /\ isdir(ord[i], D)
       THEN LET r == list_dirs(ord[i], D, F, prune, ord)
            IN  list_dirs_loop(children, i + 1, acc \o r.dirs, r.fs, F, prune, ord)
       ELSE list_dirs_loop(children, i + 1, acc, D, F, prune, ord)

\* list_dirs putting path before the directories under it.
list_dirs_parent_first(path, D, F, prune, ord) ==
  LET children == listdir(path, D, F)
  IN  IF children = {} /\ prune
      THEN [dirs |-> <<>>, fs |-> remove_empty_dir(path, D)]
      ELSE LET r == list_dirs_loop(children, 1, <<>>, D, F, prune, ord)
           IN  IF Cardinality(listdir(path, r.fs, F)) # 0
               THEN [dirs |-> <<path>> \o r.dirs, fs |-> r.fs]
               ELSE [dirs |-> <<>>, fs |-> remove_empty_dir(path, r.fs)]

list_dirs(path, D, F, prune, ord) ==
  LET children == listdir(path, D, F)
  IN  IF children = {} /\ prune
      THEN [dirs |-> <<>>, fs |-> remove_empty_dir(path, D)]
      ELSE LET r == list_dirs_loop(children, 1, <<>>, D, F, prune, ord)
           IN  IF Cardinality(listdir(path, r.fs, F)) # 0
               THEN [dirs |-> Append(r.dirs, path), fs |-> r.fs]
               ELSE [dirs |-> <<>>, fs |-> remove_empty_dir(path, r.fs)]

(***************************************************************************)
(* Hashing.                                                                *)
(***************************************************************************)
\* BUF_SIZE = 2**20
BUF_SIZE == 1048576

\* hashlib.sha1: the accumulator holds the bytes fed so far, and the digest
\* is a function of those bytes alone.
hexdigest(acc) == <<"sha1">> \o acc

\* The read loop of process_one_file: feed the data chunk by chunk.
RECURSIVE read_chunks(_, _)
read_chunks(data, acc) ==
  IF data = <<>> THEN acc
  ELSE LET n == IF Len(data) < BUF_SIZE THEN Len(data) ELSE BUF_SIZE
       IN  read_chunks(SubSeq(data, n + 1, Len(data)), acc \o SubSeq(data, 1, n))

process_one_file(path) == hexdigest(read_chunks(Content(path), <<>>))

\* process_one_folder(path, hashes): a bucket is a bag of paths (a list up
\* to order: nothing reads the order of a bucket).
RECURSIVE process_children(_, _)
process_children(todo, hashes) ==
  IF todo = {} THEN hashes
  ELSE LET f_path == CHOOSE f \in todo : TRUE
           sha1 == process_one_file(f_path)
           h1 == IF sha1 \in DOMAIN hashes THEN hashes ELSE Put(hashes, sha1, EmptyBag)
       IN  process_children(todo \ {f_path},
                            Put(h1, sha1, h1[sha1] (+) SetToBag({f_path})))

process_one_folder(path, hashes, D, F) ==
  process_children({f \in listdir(path, D, F) : ~isdir(f, D)}, hashes)

(***************************************************************************)
(* cleanup_one_entry, piece by piece.                                      *)
(***************************************************************************)
\* remove = filter(regexp.search, dups): the paths of the bucket the regular
\* expression matches, each as often as the bucket lists it.
remove_of(dups) ==
  LET R == {d \in BagToSet(dups) : regexp_search(d)}
  IN  [d \in R |-> CopiesIn(d, dups)]

\* list(set(dups) - set(remove))
kept_of(dups, remove) == BagToSet(dups) \ BagToSet(remove)

\* os.path.exists(d)
exists(d, D, F) == d \in D \cup F

\* os.rename(src, trash_dir/name): on POSIX an existing file of that name
\* is replaced silently; on Windows the call raises OSError instead.
\* T maps each file name in the trash directory to the file stored there.
rename_raises(name, T, px) == ~px /\ name \in DOMAIN T

\* move_one without its os.path.exists test: renaming a path that is gone
\* raises OSError, and so does the second attempt in the except branch.
move_one_unguarded(d, D, F, T, px, tok) ==
  IF ~exists(d, D, F)
  THEN [files |-> F, trash |-> T, err |-> "OSError:ENOENT"]
  ELSE IF ~rename_raises(basename(d), T, px)
       THEN [files |-> F \ {d}, trash |-> Put(T, basename(d), d), err |-> NoError]
       ELSE IF ~rename_raises(tok \o basename(d), T, px)
            THEN [files |-> F \ {d}, trash |-> Put(T, tok \o basename(d), d),
                  err |-> NoError]
            ELSE [files |-> F, trash |-> T, err |-> "OSError:EEXIST"]

\* The body of "for d in remove": T and F after handling d, and the error
\* raised, if any.  tok is the uuid token drawn for the second attempt.
move_one(d, D, F, T, px, tok) ==
  IF ~exists(d, D, F)
  THEN [files |-> F, trash |-> T, err |-> NoError]
  ELSE IF ~rename_raises(basename(d), T, px)
       THEN [files |-> F \ {d}, trash |-> Put(T, basename(d), d), err |-> NoError]
       ELSE IF ~rename_raises(tok \o basename(d), T, px)
            THEN [files |-> F \ {d}, trash |-> Put(T, tok \o basename(d), d),
                  err |-> NoError]
            ELSE [files |-> F, trash |-> T, err |-> "OSError:EEXIST"]

(***************************************************************************)
(* setup() and reset() as functions of the stores and the file system.     *)
(***************************************************************************)
\* setup without its "already set up" test: it enumerates every time.
setup_always(qs, D, F, prune, ord) ==
  IF search_dir \notin D
  THEN [queues |-> qs, fs |-> D, err |-> "OSError"]
  ELSE LET r == list_dirs(search_dir, D, F, prune, ord)
       IN  [queues |-> Put(qs, search_dir, r.dirs), fs |-> r.fs, err |-> NoError]

setup(qs, D, F, prune, ord) ==
  IF search_dir \in DOMAIN qs
  THEN [queues |-> qs, fs |-> D, err |-> NoError]
  ELSE IF search_dir \notin D
       THEN [queues |-> qs, fs |-> D, err |-> "OSError"]
       ELSE LET r == list_dirs(search_dir, D, F, prune, ord)
            IN  [queues |-> Put(qs, search_dir, r.dirs), fs |-> r.fs, err |-> NoError]

\* reset(): the queue entry is popped and written; the hash entry is popped
\* in memory only, because write_hashes_to_cache() is called without its
\* argument and raises TypeError before the file is opened.
reset(qs, hs) ==
  [queues |-> IF search_dir \in DOMAIN qs THEN Pop(qs, search_dir) ELSE qs,
   hashes |-> hs,
   err    |-> IF search_dir \in DOMAIN hs THEN "TypeError" ELSE NoError]

(***************************************************************************)
(* State.                                                                  *)
(***************************************************************************)
VARIABLES
  dirs,         \* the directories on disk
  files,        \* the files at their original place in the tree
  trash,        \* the trash directory: file name -> the file stored under it
  trashExists,  \* the trash directory exists
  posix,        \* os.rename replaces an existing target (POSIX) or raises
  queueStore,   \* the pickled queue file: root -> list of directories
  hashStore,    \* the pickled hash file: root -> digest -> bucket
  pc,           \* where the running action stands ("idle": none runs)
  queues,       \* the running action's copy of the queue dict
  hashes,       \* the running action's copy of the hash dict
  quit,         \* the global quit flag of the running process
  curDir,       \* search: the directory popped and in flight
  iter,         \* cleanup: the digests iteritems() has still to yield
  cur,          \* cleanup: the digest k being handled
  todo,         \* cleanup_one_entry: the paths of remove still to visit
  last,         \* the last step taken
  err,          \* the exception the last action ended with, or None
  enumerated,   \* the list setup last stored for the root
  hashed,       \* the directories process_one_folder ran on since setup
  completed,    \* the directories whose unit was fully persisted since setup
  rehashed,     \* this search run: the directories hashed not for the first time
  snap,         \* index, files and trash when cleanup first ran on the index as
                \* search left it; whether cleanup has started again since
                \* (resumed), and the files when its latest run started
  quitUnit      \* the unit in flight when the quit flag was set

fsVars    == <<dirs, files, trash, trashExists, posix>>
storeVars == <<queueStore, hashStore>>
procVars  == <<pc, queues, hashes, quit, curDir, iter, cur, todo, rehashed>>
histVars  == <<enumerated, hashed, completed, snap>>
vars == <<fsVars, storeVars, procVars, last, err, histVars, quitUnit>>

\* The process has ended: its memory is gone.
Ended ==
  /\ pc' = "idle"
  /\ queues' = EmptyDict
  /\ hashes' = EmptyDict
  /\ quit' = FALSE
  /\ curDir' = None
  /\ iter' = {}
  /\ cur' = None
  /\ todo' = EmptyBag
  /\ rehashed' = {}

\* The most copies of one path in any bucket of the index idx.
MaxCount(hs) ==
  IF search_dir \notin DOMAIN hs THEN 0
  ELSE LET idx == hs[search_dir]
           C == {0} \cup {CopiesIn(p, idx[h]) : p \in AllFiles, h \in DOMAIN idx}
       IN  CHOOSE m \in C : \A n \in C : n <= m

Init ==
  /\ \E c \in InitCases :
       /\ dirs = c.dirs
       /\ files = c.files
       /\ trash = c.trash
  /\ trashExists = (trash # EmptyDict)
  /\ posix \in BOOLEAN
  /\ queueStore = EmptyDict
  /\ hashStore = EmptyDict
  /\ pc = "idle"
  /\ queues = EmptyDict
  /\ hashes = EmptyDict
  /\ quit = FALSE
  /\ curDir = None
  /\ iter = {}
  /\ cur = None
  /\ todo = EmptyBag
  /\ last = "init"
  /\ err = NoError
  /\ enumerated = <<>>
  /\ hashed = {}
  /\ completed = {}
  /\ rehashed = {}
  /\ snap = NoSnap
  /\ quitUnit = NoUnit

(***************************************************************************)
(* setup                                                                   *)
(***************************************************************************)
Setup ==
  /\ pc = "idle"
  /\ \E prune \in BOOLEAN, ord \in DirOrders :
       LET r == setup(queueStore, dirs, files, prune, ord)
           fresh == search_dir \notin DOMAIN queueStore /\ r.err = NoError
       IN  /\ queueStore' = r.queues
           /\ dirs' = r.fs
           /\ err' = r.err
           /\ last' = IF search_dir \in DOMAIN queueStore THEN "setup_present"
                      ELSE IF r.err # NoError THEN "setup_error"
                      ELSE IF prune THEN "setup_prune" ELSE "setup_noprune"
           /\ enumerated' = IF fresh THEN r.queues[search_dir] ELSE enumerated
           /\ hashed' = IF fresh THEN {} ELSE hashed
           /\ completed' = IF fresh THEN {} ELSE completed
  /\ quitUnit' = NoUnit
  /\ UNCHANGED <<files, trash, trashExists, posix, hashStore, procVars, snap>>

(***************************************************************************)
(* search                                                                  *)
(***************************************************************************)
\* Lines 133-145: load both stores; return when the root was not set up.
SearchStart ==
  /\ pc = "idle"
  /\ err' = NoError
  /\ quitUnit' = NoUnit
  /\ IF search_dir \notin DOMAIN queueStore
     THEN /\ last' = "search_not_setup"
          /\ UNCHANGED procVars
     ELSE /\ last' = "search_start"
          /\ pc' = "search_loop"
          /\ queues' = queueStore
          /\ hashes' = IF search_dir \in DOMAIN hashStore THEN hashStore
                       ELSE Put(hashStore, search_dir, EmptyDict)
          /\ UNCHANGED <<quit, curDir, iter, cur, todo, rehashed>>
  /\ UNCHANGED <<fsVars, storeVars, histVars>>

\* The unit with queue.pop() in place of queue.pop(0): the last directory
\* of the queue is taken.
SearchPop_Last ==
  /\ pc = "search_loop"
  /\ queues[search_dir] # <<>> /\ ~quit
  /\ LET q == queues[search_dir]
         d == q[Len(q)]
     IN  /\ curDir' = d
         /\ queues' = Put(queues, search_dir, SubSeq(q, 1, Len(q) - 1))
         /\ hashes' = Put(hashes, search_dir,
                          process_one_folder(d, hashes[search_dir], dirs, files))
         /\ hashed' = hashed \cup {d}
         /\ rehashed' = IF d \in hashed THEN rehashed \cup {d} ELSE rehashed
  /\ pc' = "search_hashed"
  /\ last' = "search_pop"
  /\ UNCHANGED <<fsVars, storeVars, quit, iter, cur, todo, err, enumerated,
                 completed, snap, quitUnit>>

\* Lines 147-149: the loop test, queue.pop(0) and process_one_folder.
SearchPop ==
  /\ pc = "search_loop"
  /\ queues[search_dir] # <<>> /\ ~quit
  /\ LET d == Head(queues[search_dir])
     IN  /\ curDir' = d
         /\ queues' = Put(queues, search_dir, Tail(queues[search_dir]))
         /\ hashes' = Put(hashes, search_dir,
                          process_one_folder(d, hashes[search_dir], dirs, files))
         /\ hashed' = hashed \cup {d}
         /\ rehashed' = IF d \in hashed THEN rehashed \cup {d} ELSE rehashed
  /\ pc' = "search_hashed"
  /\ last' = "search_pop"
  /\ UNCHANGED <<fsVars, storeVars, quit, iter, cur, todo, err, enumerated,
                 completed, snap, quitUnit>>

\* process_one_file raises IOError on a file of the directory: the
\* exception leaves search() and the process ends.
SearchIOError ==
  /\ pc = "search_loop"
  /\ queues[search_dir] # <<>> /\ ~quit
  /\ \E f \in listdir(Head(queues[search_dir]), dirs, files) : ~isdir(f, dirs)
  /\ hashed' = hashed \cup {Head(queues[search_dir])}
  /\ Ended
  /\ err' = "IOError"
  /\ last' = "search_ioerror"
  /\ UNCHANGED <<fsVars, storeVars, enumerated, completed, snap, quitUnit>>

\* The unit with write_queues_to_cache(queues) in the place of line 150: the
\* queue is persisted and the hashes of the unit are not.
SearchWriteHashes_QueuesWritten ==
  /\ pc = "search_hashed"
  /\ queueStore' = queues
  /\ pc' = "search_wrote_hashes"
  /\ last' = "search_write_hashes"
  /\ snap' = NoSnap
  /\ UNCHANGED <<fsVars, hashStore, queues, hashes, quit, curDir, iter, cur, todo,
                 rehashed, err, enumerated, hashed, completed, quitUnit>>

\* Line 150: write_hashes_to_cache(hashes)
SearchWriteHashes ==
  /\ pc = "search_hashed"
  /\ hashStore' = hashes
  /\ pc' = "search_wrote_hashes"
  /\ last' = "search_write_hashes"
  /\ snap' = NoSnap
  /\ UNCHANGED <<fsVars, queueStore, queues, hashes, quit, curDir, iter, cur, todo,
                 rehashed, err, enumerated, hashed, completed, quitUnit>>

\* The unit without its write_queues_to_cache(queues): the popped queue
\* stays in memory.
SearchWriteQueues_NotWritten ==
  /\ pc = "search_wrote_hashes"
  /\ pc' = "search_loop"
  /\ completed' = completed \cup {curDir}
  /\ curDir' = None
  /\ last' = "search_write_queues"
  /\ UNCHANGED <<fsVars, storeVars, queues, hashes, quit, iter, cur, todo, rehashed,
                 err, enumerated, hashed, snap, quitUnit>>

\* Lines 151-152: write_queues_to_cache(queues)
SearchWriteQueues ==
  /\ pc = "search_wrote_hashes"
  /\ queueStore' = queues
  /\ pc' = "search_loop"
  /\ completed' = completed \cup {curDir}
  /\ curDir' = None
  /\ last' = "search_write_queues"
  /\ UNCHANGED <<fsVars, hashStore, queues, hashes, quit, iter, cur, todo, rehashed,
                 err, enumerated, hashed, snap, quitUnit>>

\* Line 147: the loop test fails (queue empty or quit set): search returns.
SearchReturn ==
  /\ pc = "search_loop"
  /\ ~(queues[search_dir] # <<>> /\ ~quit)
  /\ Ended
  /\ last' = "search_return"
  /\ UNCHANGED <<fsVars, storeVars, err, histVars, quitUnit>>

(***************************************************************************)
(* SIGINT and crashes                                                      *)
(***************************************************************************)
\* set_quit: the handler is installed while search or cleanup runs.
SetQuit ==
  /\ pc # "idle"
  /\ ~quit
  /\ quit' = TRUE
  /\ quitUnit' = IF pc \in {"search_hashed", "search_wrote_hashes"}
                 THEN [kind |-> "search", unit |-> curDir]
                 ELSE IF pc = "cleanup_entry"
                      THEN [kind |-> "cleanup", unit |-> cur]
                      ELSE NoUnit
  /\ UNCHANGED <<fsVars, storeVars, pc, queues, hashes, curDir, iter, cur, todo,
                 rehashed, last, err, histVars>>

\* The process is killed: what it held in memory is lost, the files stay.
Crash ==
  /\ pc # "idle"
  /\ pc = "search_wrote_hashes" => MaxCount(hashStore) < MaxCopies
  /\ Ended
  /\ last' = "crash"
  /\ err' = NoError
  /\ quitUnit' = NoUnit
  /\ UNCHANGED <<fsVars, storeVars, histVars>>

(***************************************************************************)
(* cleanup                                                                 *)
(***************************************************************************)
\* cleanup() without its test of the queue store (lines 235-237 left out).
CleanupStart_NoSetupCheck ==
  /\ pc = "idle"
  /\ err' = NoError
  /\ quitUnit' = NoUnit
  /\ IF search_dir \notin DOMAIN hashStore
     THEN /\ last' = "cleanup_no_hashes"
          /\ UNCHANGED <<trashExists, procVars, snap>>
     ELSE /\ last' = "cleanup_start"
          /\ pc' = "cleanup_loop"
          /\ hashes' = hashStore
          /\ iter' = DOMAIN hashStore[search_dir]
          /\ trashExists' = TRUE
          /\ snap' = IF ~snap.taken
                     THEN [taken |-> TRUE, resumed |-> FALSE,
                           idx |-> hashStore[search_dir], files |-> files,
                           trash |-> trash, runFiles |-> files]
                     ELSE [snap EXCEPT !.resumed = TRUE, !.runFiles = files]
          /\ UNCHANGED <<queues, quit, curDir, cur, todo, rehashed>>
  /\ UNCHANGED <<dirs, files, trash, posix, storeVars, enumerated, hashed, completed>>

\* Lines 233-251: load both stores, return early when there is nothing to
\* do, create the trash directory.
CleanupStart ==
  /\ pc = "idle"
  /\ err' = NoError
  /\ quitUnit' = NoUnit
  /\ IF search_dir \notin DOMAIN queueStore
     THEN /\ last' = "cleanup_not_setup"
          /\ UNCHANGED <<trashExists, procVars, snap>>
     ELSE IF search_dir \notin DOMAIN hashStore
     THEN /\ last' = "cleanup_no_hashes"
          /\ UNCHANGED <<trashExists, procVars, snap>>
     ELSE /\ last' = "cleanup_start"
          /\ pc' = "cleanup_loop"
          /\ hashes' = hashStore
          /\ iter' = DOMAIN hashStore[search_dir]
          /\ trashExists' = TRUE
          /\ snap' = IF ~snap.taken
                     THEN [taken |-> TRUE, resumed |-> FALSE,
                           idx |-> hashStore[search_dir], files |-> files,
                           trash |-> trash, runFiles |-> files]
                     ELSE [snap EXCEPT !.resumed = TRUE, !.runFiles = files]
          /\ UNCHANGED <<queues, quit, curDir, cur, todo, rehashed>>
  /\ UNCHANGED <<dirs, files, trash, posix, storeVars, enumerated, hashed, completed>>

\* Lines 252-255: iteritems() yields the next (k, v); a bucket of more than
\* one path enters cleanup_one_entry, whose filter builds remove.
CleanupNext ==
  /\ pc = "cleanup_loop"
  /\ \E k \in iter :
       /\ cur' = k
       /\ iter' = iter \ {k}
       /\ IF BagCardinality(hashes[search_dir][k]) > 1
          THEN /\ todo' = remove_of(hashes[search_dir][k])
               /\ pc' = "cleanup_entry"
               /\ last' = "cleanup_entry"
          ELSE /\ todo' = EmptyBag
               /\ pc' = "cleanup_check"
               /\ last' = "cleanup_skip"
  /\ UNCHANGED <<fsVars, storeVars, queues, hashes, quit, curDir, rehashed, err,
                 histVars, quitUnit>>

\* Lines 269-275: one round of "for d in remove".  An OSError of the second
\* rename leaves cleanup() and the process ends.
CleanupMove ==
  /\ pc = "cleanup_entry"
  /\ \E d \in BagToSet(todo) : \E tok \in Tokens :
       LET r == move_one(d, dirs, files, trash, posix, tok)
       IN  /\ files' = r.files
           /\ trash' = r.trash
           /\ err' = r.err
           /\ IF r.err = NoError
              THEN /\ todo' = todo (-) SetToBag({d})
                   /\ last' = "cleanup_move"
                   /\ UNCHANGED <<pc, queues, hashes, quit, curDir, iter, cur,
                                  rehashed>>
              ELSE /\ Ended
                   /\ last' = "cleanup_oserror"
  /\ UNCHANGED <<dirs, trashExists, posix, storeVars, histVars, quitUnit>>

\* Lines 277 and 256-258: kept = list(set(dups) - set(remove)); a non-empty
\* kept replaces the bucket and the index is written.
CleanupFinishEntry ==
  /\ pc = "cleanup_entry"
  /\ todo = EmptyBag
  /\ LET dups == hashes[search_dir][cur]
         kept == kept_of(dups, remove_of(dups))
     IN  IF kept # {}
         THEN /\ hashes' = Put(hashes, search_dir,
                               Put(hashes[search_dir], cur, SetToBag(kept)))
              /\ hashStore' = hashes'
         ELSE UNCHANGED <<hashes, hashStore>>
  /\ pc' = "cleanup_check"
  /\ last' = "cleanup_entry_done"
  /\ UNCHANGED <<fsVars, queueStore, queues, quit, curDir, iter, cur, todo, rehashed,
                 err, histVars, quitUnit>>

\* Lines 260-261: "if quit: break"; otherwise the loop goes on.
CleanupCheckQuit ==
  /\ pc = "cleanup_check"
  /\ IF quit
     THEN Ended /\ last' = "cleanup_quit"
     ELSE /\ pc' = "cleanup_loop"
          /\ UNCHANGED <<queues, hashes, quit, curDir, iter, cur, todo, rehashed,
                         last>>
  /\ UNCHANGED <<fsVars, storeVars, err, histVars, quitUnit>>

\* iteritems() is exhausted: cleanup returns.
CleanupReturn ==
  /\ pc = "cleanup_loop"
  /\ iter = {}
  /\ Ended
  /\ last' = "cleanup_done"
  /\ UNCHANGED <<fsVars, storeVars, err, histVars, quitUnit>>

(***************************************************************************)
(* reset, status, analyze                                                  *)
(***************************************************************************)
Reset ==
  /\ pc = "idle"
  /\ MaxCount(hashStore) < MaxCopies
  /\ LET r == reset(queueStore, hashStore)
     IN  /\ queueStore' = r.queues
         /\ hashStore' = r.hashes
         /\ err' = r.err
  /\ last' = "reset"
  /\ quitUnit' = NoUnit
  /\ UNCHANGED <<fsVars, procVars, histVars>>

\* status() and analyze() load the stores and log; they write nothing.
Status ==
  /\ pc = "idle"
  /\ last' = IF search_dir \in DOMAIN queueStore THEN "status" ELSE "status_not_setup"
  /\ err' = NoError
  /\ quitUnit' = NoUnit
  /\ UNCHANGED <<fsVars, storeVars, procVars, histVars>>

Analyze ==
  /\ pc = "idle"
  /\ last' = IF search_dir \in DOMAIN queueStore THEN "analyze" ELSE "analyze_not_setup"
  /\ err' = NoError
  /\ quitUnit' = NoUnit
  /\ UNCHANGED <<fsVars, storeVars, procVars, histVars>>

(***************************************************************************)
(* The specification.                                                      *)
(***************************************************************************)
Next ==
  \/ Setup
  \/ SearchStart
  \/ SearchPop
  \/ SearchIOError
  \/ SearchWriteHashes
  \/ SearchWriteQueues
  \/ SearchReturn
  \/ SetQuit
  \/ Crash
  \/ CleanupStart
  \/ CleanupNext
  \/ CleanupMove
  \/ CleanupFinishEntry
  \/ CleanupCheckQuit
  \/ CleanupReturn
  \/ Reset
  \/ Status
  \/ Analyze

Spec == Init /\ [][Next]_vars

(***************************************************************************)
(* The search command invoked again and again on one root (main, lines     *)
(* 345-346): setup and the steps of search, with interrupts, crashes and   *)
(* read errors.  A started process goes on to its next statement, and the  *)
(* command is invoked again after a process has ended.                     *)
(***************************************************************************)
SearchNext ==
  \/ Setup
  \/ SearchStart
  \/ SearchPop
  \/ SearchIOError
  \/ SearchWriteHashes
  \/ SearchWriteQueues
  \/ SearchReturn
  \/ SetQuit
  \/ Crash

SearchFair ==
  /\ WF_vars(SearchStart)
  /\ WF_vars(SearchPop)
  /\ WF_vars(SearchWriteHashes)
  /\ WF_vars(SearchWriteQueues)
  /\ WF_vars(SearchReturn)

SearchSpec == Init /\ [][SearchNext]_vars /\ SearchFair

(***************************************************************************)
(* Vocabulary of the properties.                                           *)
(***************************************************************************)
\* The persisted queue and index of the root (empty when it has no entry).
Queue == IF search_dir \in DOMAIN queueStore THEN queueStore[search_dir] ELSE <<>>
Idx   == IF search_dir \in DOMAIN hashStore THEN hashStore[search_dir] ELSE EmptyDict

Range(q) == {q[i] : i \in 1..Len(q)}

\* The file name of p carries the copy marker.
Marked(p) == regexp_search(basename(p))

\* How often the index idx lists the path p, over all its buckets.
RECURSIVE SumCopies(_, _, _)
SumCopies(p, idx, ks) ==
  IF ks = {} THEN 0
  ELSE LET k == CHOOSE x \in ks : TRUE
       IN  CopiesIn(p, idx[k]) + SumCopies(p, idx, ks \ {k})
Copies(p, idx) == SumCopies(p, idx, DOMAIN idx)

\* The paths the index lists.
Indexed(idx) == {p \in AllFiles : Copies(p, idx) > 0}

\* A step of the running search.
SearchPcs == {"search_loop", "search_hashed", "search_wrote_hashes"}

(***************************************************************************)
(* C1.  For every duplicate set cleanup has handled, including one whose   *)
(* paths all carry the marker, keep is not empty: at least one path of the *)
(* set is still at its original place.                                     *)
(***************************************************************************)
C1_KeepNeverEmpty ==
  last = "cleanup_entry_done" =>
    \E p \in BagToSet(Idx[cur]) : p \in files

(***************************************************************************)
(* C2.  For a duplicate set with at least one unmarked file name, and no   *)
(* name of its marked paths met in the trash or elsewhere in the index, a  *)
(* cleanup that runs through uninterrupted ends with the persisted bucket  *)
(* equal to the unmarked paths, every marked path in the trash under its   *)
(* own file name, and every unmarked path still in place.                  *)
(***************************************************************************)
C2_Applies(k) ==
  LET dups == BagToSet(snap.idx[k])
  IN  /\ BagCardinality(snap.idx[k]) > 1
      /\ dups \subseteq snap.files
      /\ \E p \in dups : ~Marked(p)
      /\ \A p \in dups : Marked(p) =>
           /\ basename(p) \notin DOMAIN snap.trash
           /\ \A q \in Indexed(snap.idx) \ {p} : basename(q) # basename(p)

C2_MarkedOnlyRemoved ==
  (last = "cleanup_done" /\ snap.taken /\ ~snap.resumed) =>
    \A k \in DOMAIN snap.idx : C2_Applies(k) =>
      LET dups == BagToSet(snap.idx[k])
      IN  /\ Idx[k] = SetToBag({p \in dups : ~Marked(p)})
          /\ \A p \in dups : Marked(p) =>
               /\ basename(p) \in DOMAIN trash
               /\ trash[basename(p)] = p
          /\ \A p \in dups : ~Marked(p) => p \in files

(***************************************************************************)
(* C3.  A path leaves its place only if its file name (the last component) *)
(* carries the marker, whatever its directories are called.                *)
(***************************************************************************)
C3_OnlyMarkedNamesMoved ==
  [][\A p \in files \ files' : Marked(p)]_vars

(***************************************************************************)
(* C4.  After reset the root has no entry in the persisted queue store and *)
(* none in the persisted hash index.                                       *)
(***************************************************************************)
C4_ResetDiscardsBoth ==
  last = "reset" =>
    /\ search_dir \notin DOMAIN queueStore
    /\ search_dir \notin DOMAIN hashStore

(***************************************************************************)
(* C5.  Hashing is append-only and duplicate-free: the persisted index     *)
(* never lists a path twice, a step of search never lowers the number of   *)
(* times a path is listed, and when a unit completes every file of its     *)
(* directory is listed exactly once.                                       *)
(***************************************************************************)
C5_AppendOnlyNoDuplicates ==
  [][/\ \A p \in AllFiles : Copies(p, Idx') <= 1
     /\ pc \in SearchPcs =>
          \A p \in AllFiles : Copies(p, Idx') >= Copies(p, Idx)
     /\ pc = "search_wrote_hashes" /\ pc' = "search_loop" =>
          \A p \in files : dirname(p) = curDir => Copies(p, Idx') = 1]_vars

(***************************************************************************)
(* C6.  The two stores always agree: a directory that is still in the      *)
(* persisted queue has none of its files in the persisted index, and a     *)
(* directory that setup enumerated and that left the queue has all of them *)
(* there.                                                                  *)
(***************************************************************************)
C6_StoresReflectLastUnit ==
  search_dir \in DOMAIN queueStore =>
    \A d \in Range(enumerated) :
      IF d \in Range(Queue)
      THEN \A p \in Indexed(Idx) : dirname(p) # d
      ELSE \A p \in files : dirname(p) = d => p \in Indexed(Idx)

(***************************************************************************)
(* C7.  A restarted search hashes again at most one directory, the one in  *)
(* flight when the previous run stopped; a directory whose unit completed  *)
(* is never handed to process_one_folder again.                            *)
(***************************************************************************)
C7_AtMostOneRehashed ==
  /\ Cardinality(rehashed) <= 1
  /\ pc \in {"search_hashed", "search_wrote_hashes"} => curDir \notin completed

C7_Witness ==
  /\ pc = "search_hashed"
  /\ rehashed # {}
  /\ curDir \notin rehashed
  /\ \E d \in completed : d \notin rehashed

(***************************************************************************)
(* C8.  When SIGINT arrives during a unit, that unit is the last one: no   *)
(* other unit starts, and when the action returns the unit's result is     *)
(* persisted (search: the directory left the queue and its files are in    *)
(* the index; cleanup: the bucket lists the kept paths only).              *)
(***************************************************************************)
C8_InFlightUnitCheckpointed ==
  /\ (quitUnit.kind = "search" /\ pc \in {"search_hashed", "search_wrote_hashes"})
       => curDir = quitUnit.unit
  /\ (quitUnit.kind = "search" /\ last = "search_return") =>
       /\ quitUnit.unit \notin Range(Queue)
       /\ \A p \in files : dirname(p) = quitUnit.unit => p \in Indexed(Idx)
  /\ (quitUnit.kind = "cleanup" /\ pc = "cleanup_entry") => cur = quitUnit.unit
  /\ (quitUnit.kind = "cleanup" /\ last = "cleanup_quit") =>
       \A p \in BagToSet(Idx[quitUnit.unit]) : p \in files

(***************************************************************************)
(* C9.  Stopping cleanup after k of the m candidates of a set were moved   *)
(* and running it again: the files already moved raise no error and get no *)
(* second trash entry, and the run ends with the persisted index, the      *)
(* files left in place and (when no two names meet in the trash) the trash *)
(* that one uninterrupted run produces.                                    *)
(***************************************************************************)
\* What one uninterrupted run of cleanup makes of the index and files sn.
UninterruptedFiles(sn) ==
  sn.files \ {d \in AllFiles : \E k \in DOMAIN sn.idx :
                 /\ BagCardinality(sn.idx[k]) > 1
                 /\ BagIn(d, sn.idx[k])
                 /\ regexp_search(d)}

UninterruptedIdx(sn) ==
  [k \in DOMAIN sn.idx |->
     LET keep == {p \in BagToSet(sn.idx[k]) : ~regexp_search(p)}
     IN  IF BagCardinality(sn.idx[k]) > 1 /\ keep # {}
         THEN SetToBag(keep) ELSE sn.idx[k]]

\* The trash after one uninterrupted run, when every moved file keeps its
\* own name there.
UninterruptedTrash(sn) ==
  LET moved == sn.files \ UninterruptedFiles(sn)
  IN  [n \in (DOMAIN sn.trash) \cup {basename(p) : p \in moved} |->
         IF n \in DOMAIN sn.trash THEN sn.trash[n]
         ELSE CHOOSE p \in moved : basename(p) = n]

NoNameClash(sn) ==
  LET moved == sn.files \ UninterruptedFiles(sn)
  IN  \A p \in moved :
        /\ basename(p) \notin DOMAIN sn.trash
        /\ \A q \in moved \ {p} : basename(q) # basename(p)

C9_ResumeEqualsUninterrupted ==
  /\ err # "OSError:ENOENT"
  /\ \A n1, n2 \in DOMAIN trash : n1 # n2 => trash[n1] # trash[n2]
  /\ (last = "cleanup_done" /\ snap.taken) =>
       /\ files = UninterruptedFiles(snap)
       /\ Idx = UninterruptedIdx(snap)
       /\ NoNameClash(snap) => trash = UninterruptedTrash(snap)

C9_Witness ==
  /\ last = "cleanup_done"
  /\ snap.resumed
  /\ snap.files = {FA, FA1, FA2}
  /\ Cardinality(snap.runFiles) = 2
  /\ files = {FA}

(***************************************************************************)
(* C10.  setup on a root that is already in the queue store changes        *)
(* neither store nor the file system.                                      *)
(***************************************************************************)
SetupLabels == {"setup_present", "setup_prune", "setup_noprune", "setup_error"}

C10_SetupPresentNoOp ==
  [][(pc = "idle" /\ search_dir \in DOMAIN queueStore /\ last' \in SetupLabels)
       => UNCHANGED <<queueStore, hashStore, dirs, files, trash, trashExists>>]_vars

C10_Witness ==
  /\ last = "setup_present"
  /\ search_dir \in DOMAIN hashStore
  /\ Len(Queue) < Len(enumerated)
  /\ Len(Queue) > 0

(***************************************************************************)
(* C11: when the search root is absent from the persisted queue store, a   *)
(* search, cleanup, status or analyze command returns at once without an   *)
(* error and leaves the persisted queue store, the persisted hash index,   *)
(* the tree and the trash directory as they were.                          *)
(***************************************************************************)
StartLabels ==
  {"search_not_setup", "search_start", "cleanup_not_setup", "cleanup_no_hashes",
   "cleanup_start", "status_not_setup", "status", "analyze_not_setup", "analyze"}

C11_NotSetupReturnsEarly ==
  [][(/\ pc = "idle"
      /\ search_dir \notin DOMAIN queueStore
      /\ last' \in StartLabels)
     => /\ pc' = "idle"
        /\ err' = NoError
        /\ last' \in {"search_not_setup", "cleanup_not_setup",
                      "status_not_setup", "analyze_not_setup"}
        /\ UNCHANGED <<queueStore, hashStore, dirs, files, trash, trashExists>>]_vars

\* cleanup on a root that left the queue store while its hash entry stayed.
C11_Witness ==
  /\ last = "cleanup_not_setup"
  /\ pc = "idle"
  /\ search_dir \notin DOMAIN queueStore
  /\ search_dir \in DOMAIN hashStore
  /\ \E k \in DOMAIN hashStore[search_dir] :
        BagCardinality(hashStore[search_dir][k]) > 1

(***************************************************************************)
(* C12: a setup that enumerates with pruning disabled deletes no           *)
(* directory: every directory that was there before the setup is still     *)
(* there after it, and each of them, an empty one included, is listed in   *)
(* the queue that the setup persisted.                                     *)
(***************************************************************************)
C12_NoPruneKeepsEmptyDirs ==
  [][(pc = "idle" /\ last' = "setup_noprune")
     => /\ dirs' = dirs
        /\ \A d \in dirs : d \in Range(queueStore'[search_dir])]_vars

(***************************************************************************)
(* C13: for a tree without an empty directory, the queue that setup        *)
(* persists holds exactly the directories of the tree, each once, every    *)
(* directory after all the directories under it, and the root last.        *)
(***************************************************************************)
\* d lies under a (at any depth).
IsUnder(d, a) ==
  /\ Len(d) > Len(a) + 1
  /\ SubSeq(d, 1, Len(a) + 1) = a \o <<"/">>

NoEmptyDir(D, F) == \A d \in D : listdir(d, D, F) # {}

DeepestFirst(q) ==
  \A i, j \in 1..Len(q) : IsUnder(q[i], q[j]) => i < j

C13_QueueIsPostOrder ==
  [][(/\ pc = "idle"
      /\ last' \in {"setup_prune", "setup_noprune"}
      /\ NoEmptyDir(dirs, files))
     => LET q == queueStore'[search_dir]
        IN  /\ Range(q) = dirs
            /\ Len(q) = Cardinality(dirs)
            /\ DeepestFirst(q)
            /\ q[Len(q)] = search_dir
            /\ dirs' = dirs]_vars

\* A fresh setup has persisted a queue of three directories, two of them
\* under the root, that are all the directories of the tree.
C13_Witness ==
  /\ last \in {"setup_prune", "setup_noprune"}
  /\ Len(Queue) = 3
  /\ Range(Queue) = dirs
  /\ NoEmptyDir(dirs, files)
  /\ Queue = enumerated

(***************************************************************************)
(* C14: a setup that enumerates with pruning enabled deletes exactly the   *)
(* directories that hold no file at any depth (empty when visited, or      *)
(* emptied by the pruning of everything under them) and lists none of      *)
(* them; every directory with an entry left after its subtree was          *)
(* processed stays on disk and is listed in the queue.                     *)
(***************************************************************************)
HoldsFile(d, F) == \E f \in F : IsUnder(f, d)

C14_PruneRemovesExactlyEmpty ==
  [][(pc = "idle" /\ last' = "setup_prune")
     => LET keep == {d \in dirs : HoldsFile(d, files)}
        IN  /\ dirs' = keep
            /\ Range(queueStore'[search_dir]) = keep
            /\ Len(queueStore'[search_dir]) = Cardinality(keep)]_vars

\* A pruning setup has removed the empty directory and the directory that
\* held nothing else, and has kept and listed the ones with files.
C14_Witness ==
  /\ last = "setup_prune"
  /\ DirN \notin dirs /\ DirE \notin dirs
  /\ Range(Queue) = dirs
  /\ DirP \in dirs /\ DirS \in dirs
  /\ hashStore = EmptyDict

(***************************************************************************)
(* C15: cleanup conserves files.  Over every step, a file of the tree that *)
(* is in its original place or in the trash directory is afterwards in     *)
(* exactly one of the two: never in both and never in neither, whether the *)
(* step belongs to a first cleanup, to a crash or to a resumed run.        *)
(***************************************************************************)
TrashFiles(T) == {T[n] : n \in DOMAIN T}

C15_FileConservation ==
  [][\A f \in AllFiles :
        (f \in files \/ f \in TrashFiles(trash))
          => ((f \in files') # (f \in TrashFiles(trash')))]_vars

(***************************************************************************)
(* C16: once cleanup has finished a duplicate set, the bucket of that set  *)
(* in the persisted hash index lists no path that was moved to the trash   *)
(* directory, also when every path of the set carried the marker.          *)
(***************************************************************************)
C16_PersistedBucketIsKeep ==
  (last = "cleanup_entry_done" /\ cur \in DOMAIN Idx) =>
    \A p \in BagToSet(Idx[cur]) :
       /\ p \in files
       /\ p \notin TrashFiles(trash)

(***************************************************************************)
(* C17: when the file name of a removal candidate is already taken in the  *)
(* trash directory, the move puts the candidate there under the name with  *)
(* a token prepended, every entry that the trash directory held stays as   *)
(* it was, and the move raises no error.                                   *)
(***************************************************************************)
C17_CollisionStoredUnderToken ==
  [][(pc = "cleanup_entry" /\ last' \in {"cleanup_move", "cleanup_oserror"})
     => /\ err' = NoError
        /\ \A d \in files \ files' :
              basename(d) \in DOMAIN trash
                => /\ \E tok \in Tokens :
                        /\ tok \o basename(d) \in DOMAIN trash'
                        /\ trash'[tok \o basename(d)] = d
                   /\ \A n \in DOMAIN trash :
                        n \in DOMAIN trash' /\ trash'[n] = trash[n]]_vars

(***************************************************************************)
(* C18: from the setup of a root to its reset the persisted queue is a     *)
(* suffix of the list that the setup produced.  A step changes it only by  *)
(* dropping its first element, and only the queue write that ends a unit   *)
(* of search does so; cleanup, status, analyze and a repeated setup leave  *)
(* it as it is.                                                            *)
(***************************************************************************)
IsSuffix(s, t) ==
  /\ Len(s) <= Len(t)
  /\ s = SubSeq(t, Len(t) - Len(s) + 1, Len(t))

C18_QueueIsSuffixOfSetup ==
  [][(search_dir \in DOMAIN queueStore')
     => /\ IsSuffix(queueStore'[search_dir], enumerated')
        /\ (search_dir \in DOMAIN queueStore
              /\ queueStore'[search_dir] # queueStore[search_dir])
            => /\ queueStore[search_dir] # <<>>
               /\ queueStore'[search_dir] = Tail(queueStore[search_dir])
               /\ pc = "search_wrote_hashes"
               /\ enumerated' = enumerated]_vars

\* A cleanup has run to its end on a root whose search is part done.
C18_Witness ==
  /\ last = "cleanup_done"
  /\ Len(Queue) > 0
  /\ Len(Queue) < Len(enumerated)
  /\ IsSuffix(Queue, enumerated)

(***************************************************************************)
(* C19: no hashing work is lost.  In every persisted state of a set-up     *)
(* root, each directory that setup enumerated is still in the persisted    *)
(* queue or has every file it holds recorded in the persisted hash index:  *)
(* a directory leaves the persisted queue only after its hashes were       *)
(* persisted, also between the two writes of a unit and after a crash.     *)
(***************************************************************************)
FilesOf(d) == {f \in files : dirname(f) = d}

C19_NoHashingWorkLost ==
  search_dir \in DOMAIN queueStore =>
    \A d \in Range(enumerated) :
       \/ d \in Range(Queue)
       \/ FilesOf(d) \subseteq Indexed(Idx)

\* A crash between the two writes of a unit, after an earlier unit was
\* completed: one directory has left the queue with its files indexed, and
\* the directory of the crashed unit is still queued with its files indexed.
C19_Witness ==
  /\ last = "crash"
  /\ search_dir \in DOMAIN queueStore
  /\ \E d \in Range(enumerated) :
        d \notin Range(Queue) /\ FilesOf(d) # {} /\ FilesOf(d) \subseteq Indexed(Idx)
  /\ \E d \in Range(Queue) :
        FilesOf(d) # {} /\ FilesOf(d) \subseteq Indexed(Idx)

(***************************************************************************)
(* C20: every completed unit of search makes the persisted queue exactly   *)
(* one directory shorter.  Hence, when search is invoked again and again   *)
(* on a set-up root and, from some point on, no read fails and no          *)
(* interrupt or kill arrives, the persisted queue becomes empty; and a     *)
(* search on an empty persisted queue changes neither store nor the file   *)
(* system.                                                                 *)
(***************************************************************************)
Disturbed == SetQuit \/ Crash \/ SearchIOError

SetUp == search_dir \in DOMAIN queueStore

C20_SearchDrainsQueue ==
  /\ [][(pc = "search_wrote_hashes" /\ pc' = "search_loop")
          => Len(queueStore'[search_dir]) = Len(queueStore[search_dir]) - 1]_vars
  /\ (<>[][~Disturbed]_vars) => (SetUp ~> (SetUp /\ Queue = <<>>))
  /\ [][(SetUp /\ Queue = <<>> /\ (pc \in SearchPcs \/ pc' \in SearchPcs))
          => UNCHANGED <<queueStore, hashStore, fsVars>>]_vars

\* A search started on the empty persisted queue of a root whose three
\* directories were all hashed has ended.
C20_Witness ==
  /\ last = "search_return"
  /\ SetUp /\ Queue = <<>>
  /\ Len(enumerated) = 3
  /\ completed = Range(enumerated)
  /\ hashed = completed
  /\ ~quit

====
